---- MODULE Spec2Model ----
(***************************************************************************)
(* The real-time room relay of server.js (src/unnamed/part_002, lines      *)
(* 209-311): the room registry, the connection lifecycle, the sync         *)
(* endpoint and the presence broadcaster.  Node runs every handler to      *)
(* completion on one thread, so each handler is one atomic action.         *)
(*                                                                         *)
(* The y-protocols calls the handlers make (readSyncMessage,               *)
(* applyAwarenessUpdate, encodeAwarenessUpdate, the Awareness constructor  *)
(* and its check interval) are modelled by what the library does at the    *)
(* call site.  A Yjs document is the set of update ids it holds, a state   *)
(* vector is the set of update ids a replica already has.                  *)
(***************************************************************************)
EXTENDS Integers, Sequences, FiniteSets, TLC

\* ------------------------------------------------------------------ bounds
MaxConns == 2      \* websocket handles that may ever be upgraded
MaxClock == 1      \* largest awareness clock a client frame carries
MaxMsgs == 2       \* inbound frames the relay handles in one run
MaxTicks == 1      \* firings of an awareness check interval in one run
MaxSessions == 2   \* browser sessions that call the HTTP API
MaxDrawings == 2   \* ids crypto.randomUUID() may hand out
MaxWrites == 2     \* timestamped writes to the drawings table in one run
MaxPending == 2    \* auth handlers suspended at bcrypt at one time

\* --------------------------------------------------------------- constants
MSG_SYNC == 0
MSG_AWARENESS == 1
ServerId == 0      \* doc.clientID of a room's own Y.Doc (the Awareness' local id)

Conns == 1 .. MaxConns
InstIds == 1 .. MaxConns            \* Room objects ever constructed
ClientIds == {ServerId} \cup Conns  \* awareness client ids; connection c publishes as c
DocUpdates == {"u1", "u2"}

Null == [name |-> "<null>", color |-> "<null>"]     \* JSON null / no entry in the Map
EmptyState == [name |-> "<undefined>", color |-> "<undefined>"]   \* the object {}
Alice == [name |-> "Alice", color |-> "#ff0000"]
Guest == [name |-> " Guest ", color |-> "<undefined>"]
ClientStates == {Alice, Guest}
User == [name |-> "User", color |-> "#0000ff"]
Bob == [name |-> " Bob ", color |-> "<undefined>"]

\* ------------------------------------------------------- upgrade requests
\* request.url as a pathname and the room parameter of its query string, as
\* written in the url
NoParam == "<null>"
Requests ==
  {[url |-> "/yjs/a", room |-> NoParam], [url |-> "/yjs", room |-> "a"],
   [url |-> "/yjs/", room |-> NoParam], [url |-> "/yjsa", room |-> NoParam],
   [url |-> "/api/rooms", room |-> NoParam],
   [url |-> "//", room |-> NoParam]}
\* requests for a room whose name needs percent-encoding in a url
EncodedRequests ==
  {[url |-> "/yjs/a%20b", room |-> NoParam], [url |-> "/yjs", room |-> "a%20b"],
   [url |-> "/yjs", room |-> ""]}
RoomNames == {"a", "a%20b", "a b", "default"}

\* new URL(request.url, base) throws on a scheme-relative url without a host
UrlParses(req) == req.url # "//"

\* u.pathname.startsWith("/yjs")
StartsWithYjs(req) ==
  req.url \in {"/yjs", "/yjs/", "/yjs/a", "/yjs/a%20b", "/yjsa"}

\* u.pathname.replace(/^\/yjs\/?/, "") : the pathname stays percent-encoded
StripPrefix(req) ==
  CASE req.url = "/yjs/a" -> "a"
    [] req.url = "/yjs/a%20b" -> "a%20b"
    [] req.url = "/yjsa" -> "a"
    [] OTHER -> ""

\* u.searchParams.get("room"): URLSearchParams percent-decodes the value
SearchParam(req) == IF req.room = "a%20b" THEN "a b" ELSE req.room

\* room = path remainder; if (!room) room = u.searchParams.get("room") || "default"
RoomOf(req) ==
  IF StripPrefix(req) # "" THEN StripPrefix(req)
  ELSE IF SearchParam(req) # NoParam /\ SearchParam(req) # "" THEN SearchParam(req)
  ELSE "default"

\* ------------------------------------------------------------ wire frames
NoEntries == << >>
Entries == [clientID : ClientIds, clock : 0 .. MaxClock, state : ClientStates \cup {Null}]
AwarenessUpdates ==
  {<<e>> : e \in {x \in Entries : x.state # Guest}}
    \cup {<<[clientID |-> 1, clock |-> 1, state |-> Guest],
            [clientID |-> 2, clock |-> 1, state |-> Alice]>>}
    \cup {<<[clientID |-> 1, clock |-> 1, state |-> User],
            [clientID |-> 2, clock |-> 1, state |-> Bob]>>}

\* an inbound frame: leading tag, then the kind-specific payload
Frame(type, sub, docpart, entries) ==
  [type |-> type, sub |-> sub, docpart |-> docpart, entries |-> entries]
\* what the event record keeps of a frame: its tag, sub-kind and document part
Heading(frame) == Frame(frame.type, frame.sub, frame.docpart, NoEntries)
NoFrame == Frame(-1, "", {}, NoEntries)
EmptyFrame == Frame(-1, "empty", {}, NoEntries)
Frames ==
  {Frame(MSG_SYNC, "step1", sv, NoEntries) : sv \in {{}, {"u1"}}}
    \cup {Frame(MSG_SYNC, "step2", {"u2"}, NoEntries)}
    \cup {Frame(MSG_SYNC, "update", {"u1"}, NoEntries)}
    \cup {Frame(MSG_SYNC, "corrupt", {}, NoEntries)}
    \cup {Frame(MSG_AWARENESS, "", {}, upd) : upd \in AwarenessUpdates}
    \cup {Frame(MSG_AWARENESS, "corrupt", {}, NoEntries)}
    \cup {Frame(2, "", {}, NoEntries)}   \* a tag that is neither kind
    \cup {EmptyFrame}

\* an outbound message, as handed to ws.send, with the call site that sent it
\* (by) and the origin argument in scope there
NoOrigin == <<"none", 0>>
WsOrigin(ws) == <<"ws", ws>>
LocalOrigin == <<"local", 0>>
TimeoutOrigin == <<"timeout", 0>>
Msg(type, sub, docpart, entries, by, origin) ==
  [type |-> type, sub |-> sub, docpart |-> docpart, entries |-> entries,
   by |-> by, origin |-> origin]

\* ------------------------------------------------------------------ state
VARIABLES
  alive,       \* the node process is running (no uncaught exception yet)
  rooms,       \* the registry Map: room name -> Room object (0: no entry)
  nextInst,    \* Room objects constructed so far
  doc,         \* Room object -> updates its Y.Doc holds
  states,      \* Room object -> awareness.states (client id -> state, Null: absent)
  meta,        \* Room object -> awareness.meta clock (client id -> clock, -1: absent)
  conns,       \* Room object -> its conns Set
  readyState,  \* ws handle -> "CONNECTING" | "OPEN" | "CLOSING" | "CLOSED"
  bound,       \* ws handle -> Room object captured by its handlers (0: none)
  sent,        \* ws handle -> messages passed to ws.send, in order
  nmsg,        \* inbound frames handled so far
  nticks,      \* check-interval firings so far
  event,       \* the event the server handled last
  response,    \* what the last event answered over HTTP (NoResponse: nothing)
  request,     \* the HTTP request handled last (NoRequest: none)
  users,       \* the users Map: username -> bcrypt hash (NoHash: no entry)
  session,     \* browser session -> req.session.user.username (NoUser: none)
  pending,     \* auth handlers suspended at their await on bcrypt
  drawings,    \* the drawings table: id -> row (NoRow: no row)
  now          \* the clock new Date() reads, as a count of writes

apivars == <<request, users, session, pending, drawings, now>>

vars == <<alive, rooms, nextInst, doc, states, meta, conns, readyState, bound,
          sent, nmsg, nticks, event, response, request, users, session, pending,
          drawings, now>>

Event(type, ws, inst, frame, req) ==
  [type |-> type, ws |-> ws, inst |-> inst, frame |-> frame, req |-> req]
NoReq == [url |-> "", room |-> NoParam]
Response(route, status, body) == [route |-> route, status |-> status, body |-> body]
NoResponse == Response("", 0, << >>)

\* ------------------------------------------------------- HTTP API values
Sessions == 1 .. MaxSessions
DrawingIds == 1 .. MaxDrawings
Usernames == {"ann"}
Passwords == {"pw1", "pw2"}
NoUser == "<no user>"
NoHash == <<"<no hash>", "">>
Absent == "<undefined>"
Titles == {"t1", "t2"}
Contents == {"c1"}
\* req.body of a drawing request: its title, and its size, background and
\* strokes taken together (Absent: the field is missing)
Bodies ==
  {[title |-> "t1", content |-> "c1"],      \* a whole drawing
   [title |-> "t2", content |-> Absent],    \* a new title alone
   [title |-> "", content |-> "c1"]}        \* an empty title: fails z.string().min(1)
NoBody == [title |-> Absent, content |-> Absent]
NoRow == [title |-> "<no row>", json |-> NoBody, created_at |-> -1, updated_at |-> -1]
Request(route, s, id, body) == [route |-> route, session |-> s, id |-> id, body |-> body]
NoRequest == Request("", 0, 0, NoBody)

\* new Awareness(doc): the constructor's setLocalState({}) gives the room's own
\* client id the state {} with clock 0, before any listener is attached
FreshStates == [id \in ClientIds |-> IF id = ServerId THEN EmptyState ELSE Null]
FreshMeta == [id \in ClientIds |-> IF id = ServerId THEN 0 ELSE -1]

Init ==
  /\ alive = TRUE
  /\ rooms = [n \in RoomNames |-> 0]
  /\ nextInst = 0
  /\ doc = [i \in InstIds |-> {}]
  /\ states = [i \in InstIds |-> FreshStates]
  /\ meta = [i \in InstIds |-> FreshMeta]
  /\ conns = [i \in InstIds |-> {}]
  /\ readyState = [c \in Conns |-> "CONNECTING"]
  /\ bound = [c \in Conns |-> 0]
  /\ sent = [c \in Conns |-> << >>]
  /\ nmsg = 0
  /\ nticks = 0
  /\ event = Event("init", 0, 0, NoFrame, NoReq)
  /\ response = NoResponse
  /\ request = NoRequest
  /\ users = [u \in Usernames |-> NoHash]
  /\ session = [s \in Sessions |-> NoUser]
  /\ pending = {}
  /\ drawings = [id \in DrawingIds |-> NoRow]
  /\ now = 0

\* ---------------------------------------------------------- room registry
\* getRoom(name): the Room the registry holds for name, else a newly
\* constructed one.  r is the Room object, created tells whether lines
\* 221-235 ran (new Y.Doc, new Awareness, new Set, rooms.set).
getRoomAlwaysNew(name) == [r |-> nextInst + 1, created |-> TRUE]

getRoom(name) ==
  IF rooms[name] # 0
    THEN [r |-> rooms[name], created |-> FALSE]
    ELSE [r |-> nextInst + 1, created |-> TRUE]

\* ------------------------------------------------------ presence encoding
\* awarenessProtocol.encodeAwarenessUpdate(awareness, clients): for each
\* client id its clock from awareness.meta and its state from
\* awareness.states (null when the Map has no entry)
encodeAwarenessUpdate(st, mt, clients) ==
  {[clientID |-> id, clock |-> mt[id], state |-> st[id]] : id \in clients}

\* Array.from(awareness.getStates().keys())
StateKeys(st) == {id \in ClientIds : st[id] # Null}

\* const changed = added.concat(updated, removed)
ChangedWithoutAdded(upd) == upd.updated \cup upd.removed

ChangedWithoutRemoved(upd) == upd.added \cup upd.updated

Changed(upd) == upd.added \cup upd.updated \cup upd.removed

\* the awareness.on("update") listener of a Room: one awareness frame for the
\* changed ids, sent to every member of conns that is not the origin and
\* whose socket is OPEN.  upd is the event's {added, updated, removed}.
BroadcastWithEcho(sentv, members, rs, st, mt, upd, origin) ==
  [d \in Conns |->
     IF d \in members /\ rs[d] = "OPEN"
       THEN Append(sentv[d],
                   Msg(MSG_AWARENESS, "", {}, encodeAwarenessUpdate(st, mt, Changed(upd)),
                       "update", origin))
       ELSE sentv[d]]

BroadcastToAnyState(sentv, members, rs, st, mt, upd, origin) ==
  [d \in Conns |->
     IF d \in members /\ WsOrigin(d) # origin
       THEN Append(sentv[d],
                   Msg(MSG_AWARENESS, "", {}, encodeAwarenessUpdate(st, mt, Changed(upd)),
                       "update", origin))
       ELSE sentv[d]]

Broadcast(sentv, members, rs, st, mt, upd, origin) ==
  [d \in Conns |->
     IF d \in members /\ WsOrigin(d) # origin /\ rs[d] = "OPEN"
       THEN Append(sentv[d],
                   Msg(MSG_AWARENESS, "", {}, encodeAwarenessUpdate(st, mt, Changed(upd)),
                       "update", origin))
       ELSE sentv[d]]

\* sendSync(ws, doc): sync step 1, carrying the server document's state vector
sendSync(d) == Msg(MSG_SYNC, "step1", d, {}, "sendSync", NoOrigin)

\* sendFullAwareness(ws, awareness): every id of awareness.getStates()
sendFullAwarenessNamedOnly(st, mt) ==
  Msg(MSG_AWARENESS, "", {},
      encodeAwarenessUpdate(st, mt, {id \in StateKeys(st) : st[id] # EmptyState}),
      "sendFullAwareness", NoOrigin)

sendFullAwareness(st, mt) ==
  Msg(MSG_AWARENESS, "", {}, encodeAwarenessUpdate(st, mt, StateKeys(st)),
      "sendFullAwareness", NoOrigin)

\* the two sends of onWSConnection, in the order the handler makes them
InitialSendsSwapped(d, st, mt) == <<sendFullAwareness(st, mt), sendSync(d)>>

InitialSends(d, st, mt) == <<sendSync(d), sendFullAwareness(st, mt)>>

\* --------------------------------------------------- connection lifecycle
\* onWSConnection(ws, roomName): resolve the Room, conns.add(ws), the two
\* initial sends, and the registration of the message and close handlers
onWSConnection(ws, roomName, req) ==
  LET g == getRoom(roomName)
      i == g.r
  IN /\ rooms' = IF g.created THEN [rooms EXCEPT ![roomName] = i] ELSE rooms
     /\ nextInst' = IF g.created THEN nextInst + 1 ELSE nextInst
     /\ conns' = [conns EXCEPT ![i] = @ \cup {ws}]
     /\ sent' = [sent EXCEPT ![ws] = @ \o InitialSends(doc[i], states[i], meta[i])]
     /\ bound' = [bound EXCEPT ![ws] = i]
     /\ readyState' = [readyState EXCEPT ![ws] = "OPEN"]
     /\ event' = Event("connection", ws, i, NoFrame, req)
     /\ response' = NoResponse
     /\ UNCHANGED <<alive, doc, states, meta, nmsg, nticks>>
     /\ UNCHANGED apivars

\* socket.destroy(): no websocket is established for the request
RejectIntoDefaultRoom(ws, req) == onWSConnection(ws, "default", req)

Reject(ws, req) ==
  /\ readyState' = [readyState EXCEPT ![ws] = "CLOSED"]
  /\ event' = Event("rejected", ws, 0, NoFrame, req)
  /\ response' = NoResponse
  /\ UNCHANGED <<alive, rooms, nextInst, doc, states, meta, conns, bound, sent, nmsg, nticks>>
  /\ UNCHANGED apivars

\* server.on("upgrade"): a request for a socket that is not yet a websocket
Upgrade(ws, req) ==
  /\ alive
  /\ readyState[ws] = "CONNECTING"
  /\ \A w \in 1 .. ws - 1 : readyState[w] # "CONNECTING"   \* handles are numbered as they arrive
  /\ IF ~UrlParses(req) THEN Reject(ws, req)
     ELSE IF ~StartsWithYjs(req) THEN Reject(ws, req)
     ELSE onWSConnection(ws, RoomOf(req), req)

\* the transport starts closing: readyState leaves OPEN before "close" fires
BeginClose(ws) ==
  /\ alive
  /\ readyState[ws] = "OPEN"
  /\ readyState' = [readyState EXCEPT ![ws] = "CLOSING"]
  /\ event' = Event("closing", ws, bound[ws], NoFrame, NoReq)
  /\ response' = NoResponse
  /\ UNCHANGED <<alive, rooms, nextInst, doc, states, meta, conns, bound, sent, nmsg, nticks>>
  /\ UNCHANGED apivars

\* ws.on("close"): conns.delete(ws)
OnCloseEvictsEmptyRoom(ws) ==
  /\ alive
  /\ readyState[ws] \in {"OPEN", "CLOSING"}
  /\ readyState' = [readyState EXCEPT ![ws] = "CLOSED"]
  /\ conns' = [conns EXCEPT ![bound[ws]] = @ \ {ws}]
  /\ rooms' = [n \in RoomNames |->
                 IF rooms[n] = bound[ws] /\ conns[bound[ws]] \ {ws} = {} THEN 0 ELSE rooms[n]]
  /\ event' = Event("close", ws, bound[ws], NoFrame, NoReq)
  /\ response' = NoResponse
  /\ UNCHANGED <<alive, nextInst, doc, states, meta, bound, sent, nmsg, nticks>>
  /\ UNCHANGED apivars

OnCloseKeepsMember(ws) ==
  /\ alive
  /\ readyState[ws] \in {"OPEN", "CLOSING"}
  /\ readyState' = [readyState EXCEPT ![ws] = "CLOSED"]
  /\ event' = Event("close", ws, bound[ws], NoFrame, NoReq)
  /\ response' = NoResponse
  /\ UNCHANGED <<alive, rooms, nextInst, doc, states, meta, conns, bound, sent, nmsg, nticks>>
  /\ UNCHANGED apivars

OnClose(ws) ==
  /\ alive
  /\ readyState[ws] \in {"OPEN", "CLOSING"}
  /\ readyState' = [readyState EXCEPT ![ws] = "CLOSED"]
  /\ conns' = [conns EXCEPT ![bound[ws]] = @ \ {ws}]
  /\ event' = Event("close", ws, bound[ws], NoFrame, NoReq)
  /\ response' = NoResponse
  /\ UNCHANGED <<alive, rooms, nextInst, doc, states, meta, bound, sent, nmsg, nticks>>
  /\ UNCHANGED apivars

\* ----------------------------------------------------------- sync endpoint
\* syncProtocol.readSyncMessage(dec, enc, doc): a step 1 writes a step 2 with
\* what the document holds beyond the peer's state vector into enc; a step 2
\* or an update is applied to the document and writes nothing.
\* enc is what follows the MSG_SYNC tag in the reply.
readSyncMessageDropsUpdate(frame, d) ==
  IF frame.sub = "step1"
    THEN [doc |-> d, enc |-> <<"step2", d \ frame.docpart>>]
    ELSE [doc |-> d, enc |-> << >>]

readSyncMessage(frame, d) ==
  IF frame.sub = "step1"
    THEN [doc |-> d, enc |-> <<"step2", d \ frame.docpart>>]
    ELSE [doc |-> d \cup frame.docpart, enc |-> << >>]

\* const reply = encoding.toUint8Array(enc); if (reply.length > 1) ws.send(reply)
SendReplyToRoom(sentv, ws, members, rs, reply) ==
  IF Len(reply) > 1
    THEN [d \in Conns |->
            IF d = ws \/ (d \in members /\ rs[d] = "OPEN")
              THEN Append(sentv[d], Msg(reply[1], reply[2], reply[3], {}, "reply", WsOrigin(ws)))
              ELSE sentv[d]]
    ELSE sentv

SendReply(sentv, ws, members, rs, reply) ==
  IF Len(reply) > 1
    THEN [sentv EXCEPT ![ws] =
            Append(@, Msg(reply[1], reply[2], reply[3], {}, "reply", WsOrigin(ws)))]
    ELSE sentv

\* ------------------------------------------------------ presence endpoint
\* one iteration of applyAwarenessUpdate's loop over the decoded entries
ApplyEntry(acc, e) ==
  LET id == e.clientID
      hasMeta == acc.mt[id] # -1
      currClock == IF hasMeta THEN acc.mt[id] ELSE 0
      \* never let a remote client remove the local state: bump the clock instead
      keepLocal == e.state = Null /\ id = ServerId /\ acc.st[ServerId] # Null
      clock == IF keepLocal THEN e.clock + 1 ELSE e.clock
  IN IF currClock < e.clock \/ (currClock = e.clock /\ e.state = Null /\ acc.st[id] # Null)
       THEN [st |-> IF keepLocal THEN acc.st ELSE [acc.st EXCEPT ![id] = e.state],
             mt |-> [acc.mt EXCEPT ![id] = clock],
             added |-> IF ~hasMeta /\ e.state # Null THEN acc.added \cup {id} ELSE acc.added,
             removed |-> IF hasMeta /\ e.state = Null THEN acc.removed \cup {id} ELSE acc.removed,
             updated |-> IF hasMeta /\ e.state # Null THEN acc.updated \cup {id} ELSE acc.updated]
       ELSE acc

RECURSIVE ApplyEntries(_, _)
ApplyEntries(acc, entries) ==
  IF entries = << >> THEN acc
  ELSE ApplyEntries(ApplyEntry(acc, Head(entries)), Tail(entries))

\* awarenessProtocol.applyAwarenessUpdate(awareness, update, origin): the new
\* states and meta, and the added, updated and removed ids of its "update"
\* event (emitted when any of the three is non-empty)
applyAwarenessUpdate(st, mt, entries) ==
  ApplyEntries([st |-> st, mt |-> mt, added |-> {}, updated |-> {}, removed |-> {}], entries)

Emits(upd) == upd.added # {} \/ upd.updated # {} \/ upd.removed # {}

\* -------------------------------------------------------- message handler
\* decoding fails: an empty frame has no tag to read, a corrupt payload makes
\* readSyncMessage / readVarUint8Array / JSON.parse throw
ThrowsOnUnknownTag(frame) ==
  frame.sub \in {"empty", "corrupt"} \/ frame.type \notin {MSG_SYNC, MSG_AWARENESS}

Throws(frame) == frame.sub \in {"empty", "corrupt"}

\* An uncaught exception ends the node process: the registry, the rooms and
\* every socket go with it.
Exit ==
  /\ alive' = FALSE
  /\ rooms' = [n \in RoomNames |-> 0]
  /\ nextInst' = 0
  /\ doc' = [i \in InstIds |-> {}]
  /\ states' = [i \in InstIds |-> FreshStates]
  /\ meta' = [i \in InstIds |-> FreshMeta]
  /\ conns' = [i \in InstIds |-> {}]
  /\ readyState' = [c \in Conns |-> "CLOSED"]
  /\ bound' = [c \in Conns |-> 0]
  /\ sent' = [c \in Conns |-> << >>]
  /\ nmsg' = 0
  /\ nticks' = 0
  /\ request' = NoRequest
  /\ users' = [u \in Usernames |-> NoHash]
  /\ session' = [s \in Sessions |-> NoUser]
  /\ pending' = {}
  /\ now' = 0
  /\ UNCHANGED drawings     \* the table is a file

\* ws.on("message"): the handler has no try/catch and the process installs no
\* uncaughtException handler, so a throw ends the process
OnMessage(ws, data) ==
  /\ alive
  /\ readyState[ws] = "OPEN"
  /\ nmsg < MaxMsgs
  /\ event' = Event("message", ws, bound[ws], Heading(data), NoReq)
  /\ response' = NoResponse
  /\ LET i == bound[ws] IN
     IF Throws(data)
       THEN Exit
     ELSE IF data.type = MSG_SYNC
       THEN LET res == readSyncMessage(data, doc[i])
                reply == <<MSG_SYNC>> \o res.enc
            IN /\ doc' = [doc EXCEPT ![i] = res.doc]
               /\ sent' = SendReply(sent, ws, conns[i], readyState, reply)
               /\ nmsg' = nmsg + 1
               /\ UNCHANGED <<alive, states, meta, rooms, nextInst, conns, readyState,
                              bound, nticks>>
               /\ UNCHANGED apivars
     ELSE IF data.type = MSG_AWARENESS
       THEN LET res == applyAwarenessUpdate(states[i], meta[i], data.entries)
            IN /\ states' = [states EXCEPT ![i] = res.st]
               /\ meta' = [meta EXCEPT ![i] = res.mt]
               /\ sent' = IF Emits(res)
                            THEN Broadcast(sent, conns[i], readyState, res.st, res.mt,
                                           res, WsOrigin(ws))
                            ELSE sent
               /\ nmsg' = nmsg + 1
               /\ UNCHANGED <<alive, doc, rooms, nextInst, conns, readyState, bound,
                              nticks>>
               /\ UNCHANGED apivars
     ELSE /\ nmsg' = nmsg + 1
          /\ UNCHANGED <<alive, doc, states, meta, sent, rooms, nextInst, conns,
                         readyState, bound, nticks>>
          /\ UNCHANGED apivars

\* ------------------------------------------------- awareness check interval
\* The Awareness constructed at line 222 runs a timer: it renews the local
\* state (clock + 1, "update" with origin "local") once that is half the
\* outdated timeout old, and removes the states of other clients that have
\* not been updated for the outdated timeout ("update" with origin
\* "timeout").  Time is not modelled: renew and remove are the timer's
\* verdicts, chosen freely.
CheckInterval(i, renew, remove) ==
  /\ alive
  /\ nticks < MaxTicks
  /\ nticks' = nticks + 1
  /\ i <= nextInst
  /\ renew \/ remove # {}
  /\ renew => meta[i][ServerId] < MaxClock
  /\ remove \subseteq StateKeys(states[i]) \ {ServerId}
  /\ LET mt1 == IF renew THEN [meta[i] EXCEPT ![ServerId] = @ + 1] ELSE meta[i]
         sent1 == IF renew
                    THEN Broadcast(sent, conns[i], readyState, states[i], mt1,
                                   [added |-> {}, updated |-> {ServerId}, removed |-> {}],
                                   LocalOrigin)
                    ELSE sent
         st2 == [id \in ClientIds |-> IF id \in remove THEN Null ELSE states[i][id]]
     IN /\ meta' = [meta EXCEPT ![i] = mt1]
        /\ states' = [states EXCEPT ![i] = st2]
        /\ sent' = IF remove # {}
                     THEN Broadcast(sent1, conns[i], readyState, st2, mt1,
                                    [added |-> {}, updated |-> {}, removed |-> remove],
                                    TimeoutOrigin)
                     ELSE sent1
  /\ event' = Event("interval", 0, i, NoFrame, NoReq)
  /\ response' = NoResponse
  /\ UNCHANGED <<alive, rooms, nextInst, doc, conns, readyState, bound, nmsg>>
  /\ UNCHANGED apivars

\* ----------------------------------------------------------- room directory
\* (st?.name || ""): an absent name reads as the empty string
NameOf(st) == IF st.name = "<undefined>" THEN "" ELSE st.name

\* String.prototype.trim, on the display names that occur
Trim(s) ==
  CASE s = " Guest " -> "Guest"
    [] s = " Bob " -> "Bob"
    [] OTHER -> s

\* String.prototype.toLowerCase, on the display names that occur
ToLowerCase(s) ==
  CASE s = "Guest" -> "guest"
    [] s = "User" -> "user"
    [] s = "Alice" -> "alice"
    [] s = "Bob" -> "bob"
    [] s = " Guest " -> " guest "
    [] s = " Bob " -> " bob "
    [] OTHER -> s

\* st?.color || "#999"
ColorOf(st) == IF st.color = "<undefined>" THEN "#999" ELSE st.color

\* the forEach over awareness.getStates(): a peer for every entry that the
\* placeholder test at line 305 lets through
PeersUntrimmed(st) ==
  {[id |-> cid, name |-> Trim(NameOf(st[cid])), color |-> ColorOf(st[cid])] :
     cid \in {x \in StateKeys(st) :
                LET n == NameOf(st[x])
                IN ~(n = "" \/ ToLowerCase(n) = "user" \/ ToLowerCase(n) = "guest")}}

Peers(st) ==
  {[id |-> cid, name |-> Trim(NameOf(st[cid])), color |-> ColorOf(st[cid])] :
     cid \in {x \in StateKeys(st) :
                LET n == Trim(NameOf(st[x]))
                IN ~(n = "" \/ ToLowerCase(n) = "user" \/ ToLowerCase(n) = "guest")}}

\* the loop over rooms.entries(): a Map iterates in insertion order, which is
\* the order the Room objects were constructed in
Summary ==
  [k \in 1 .. nextInst |->
     [name |-> CHOOSE n \in RoomNames : rooms[n] = k, peers |-> Peers(states[k])]]

\* app.get("/api/rooms"): res.json(summary)
RoomsQueryThroughGetRoom ==
  /\ alive
  /\ nextInst < MaxConns
  /\ event' = Event("request", 0, 0, NoFrame, NoReq)
  /\ response' = Response("GET /api/rooms", 200, Summary)
  /\ rooms' = IF getRoom("default").created
                THEN [rooms EXCEPT !["default"] = getRoom("default").r] ELSE rooms
  /\ nextInst' = IF getRoom("default").created THEN nextInst + 1 ELSE nextInst
  /\ UNCHANGED <<alive, doc, states, meta, conns, readyState, bound, sent, nmsg, nticks>>
  /\ UNCHANGED apivars

RoomsQuery ==
  /\ alive
  /\ event' = Event("request", 0, 0, NoFrame, NoReq)
  /\ response' = Response("GET /api/rooms", 200, Summary)
  /\ UNCHANGED <<alive, rooms, nextInst, doc, states, meta, conns, readyState, bound,
                 sent, nmsg, nticks>>
  /\ UNCHANGED apivars

\* ---------------------------------------------------------- specification
Next ==
  \/ \E ws \in Conns, req \in Requests : Upgrade(ws, req)
  \/ \E ws \in Conns, data \in Frames : OnMessage(ws, data)
  \/ \E ws \in Conns : BeginClose(ws)
  \/ \E ws \in Conns : OnClose(ws)
  \/ \E i \in InstIds, renew \in BOOLEAN, remove \in SUBSET Conns : CheckInterval(i, renew, remove)
  \/ RoomsQuery

Spec == Init /\ [][Next]_vars

\* The same relay under a wider set of upgrade requests and a narrower set of
\* frames: the runs that matter to how a request's room name is resolved.
ResolveFrames ==
  {Frame(MSG_SYNC, "step1", {}, NoEntries),
   Frame(MSG_SYNC, "update", {"u1"}, NoEntries),
   Frame(MSG_AWARENESS, "", {}, <<[clientID |-> 1, clock |-> 1, state |-> Alice]>>)}

ResolveNext ==
  \/ \E ws \in Conns, req \in Requests \cup EncodedRequests : Upgrade(ws, req)
  \/ \E ws \in Conns, data \in ResolveFrames : OnMessage(ws, data)
  \/ \E ws \in Conns : BeginClose(ws)
  \/ \E ws \in Conns : OnClose(ws)
  \/ \E i \in InstIds, renew \in BOOLEAN, remove \in SUBSET Conns : CheckInterval(i, renew, remove)
  \/ RoomsQuery

ResolveSpec == Init /\ [][ResolveNext]_vars

\* ----------------------------------------------------------------- HTTP API
\* the relay is left alone by every handler of the HTTP API but /api/rooms
relayvars == <<alive, rooms, nextInst, doc, states, meta, conns, readyState, bound,
               sent, nmsg, nticks>>

\* bcrypt.hash(password, 12) and bcrypt.compare(password, hash)
Hash(password) == <<"bcrypt", password>>
Compare(password, hash) == hash = Hash(password)

\* a handler suspended at its await, with the locals it resumes with
Pending(kind, s, username, password, hash) ==
  [kind |-> kind, session |-> s, username |-> username, password |-> password,
   hash |-> hash]

\* every handler answers: the request and the response of the step
Answer(req, status, body) ==
  /\ request' = req
  /\ response' = Response(req.route, status, body)
  /\ event' = Event("request", 0, 0, NoFrame, NoReq)

\* requireAuth: req.session.user ? next() : res.status(401)
requireAuthNever(s) == TRUE

requireAuth(s) == session[s] # NoUser

\* POST /auth/register, up to its await on bcrypt.hash
RegisterBegin(s, username, password) ==
  LET req == Request("POST /auth/register", s, 0, NoBody) IN
  /\ alive
  /\ IF username = Absent \/ password = Absent
       THEN Answer(req, 400, "Username & password required") /\ UNCHANGED pending
     ELSE IF users[username] # NoHash
       THEN Answer(req, 409, "User exists") /\ UNCHANGED pending
     ELSE /\ Cardinality(pending) < MaxPending
          /\ pending' = pending \cup {Pending("register", s, username, password, NoHash)}
          /\ request' = req
          /\ response' = NoResponse
          /\ event' = Event("request", 0, 0, NoFrame, NoReq)
  /\ UNCHANGED <<users, session, drawings, now>>
  /\ UNCHANGED relayvars

\* POST /auth/register, from the resolution of bcrypt.hash on
RegisterEnd(p) ==
  /\ alive
  /\ p \in pending /\ p.kind = "register"
  /\ pending' = pending \ {p}
  /\ users' = [users EXCEPT ![p.username] = Hash(p.password)]
  /\ session' = [session EXCEPT ![p.session] = p.username]
  /\ Answer(Request("POST /auth/register", p.session, 0, NoBody), 200, p.username)
  /\ UNCHANGED <<drawings, now>>
  /\ UNCHANGED relayvars

\* POST /auth/login, up to its await on bcrypt.compare
LoginBegin(s, username, password) ==
  LET req == Request("POST /auth/login", s, 0, NoBody) IN
  /\ alive
  /\ IF username = Absent \/ users[username] = NoHash
       THEN Answer(req, 401, "Invalid credentials") /\ UNCHANGED pending
     ELSE /\ Cardinality(pending) < MaxPending
          /\ pending' = pending \cup {Pending("login", s, username, password, users[username])}
          /\ request' = req
          /\ response' = NoResponse
          /\ event' = Event("request", 0, 0, NoFrame, NoReq)
  /\ UNCHANGED <<users, session, drawings, now>>
  /\ UNCHANGED relayvars

\* POST /auth/login, from the resolution of bcrypt.compare on
LoginEnd(p) ==
  LET req == Request("POST /auth/login", p.session, 0, NoBody) IN
  /\ alive
  /\ p \in pending /\ p.kind = "login"
  /\ pending' = pending \ {p}
  /\ IF Compare(p.password, p.hash)
       THEN /\ session' = [session EXCEPT ![p.session] = p.username]
            /\ Answer(req, 200, p.username)
       ELSE /\ Answer(req, 401, "Invalid credentials")
            /\ UNCHANGED session
  /\ UNCHANGED <<users, drawings, now>>
  /\ UNCHANGED relayvars

\* POST /auth/logout: req.session.destroy
Logout(s) ==
  /\ alive
  /\ session' = [session EXCEPT ![s] = NoUser]
  /\ Answer(Request("POST /auth/logout", s, 0, NoBody), 200, "ok")
  /\ UNCHANGED <<users, pending, drawings, now>>
  /\ UNCHANGED relayvars

\* DrawingSchema.parse and DrawingSchema.partial().parse: a ZodError ends in
\* the error handler's 400
ValidDrawing(body) == body.title \notin {Absent, ""} /\ body.content # Absent
ValidPartial(body) == body.title # ""

\* { ...JSON.parse(existing.json), ...partial }
Merge(existing, partial) ==
  [title |-> IF partial.title # Absent THEN partial.title ELSE existing.title,
   content |-> IF partial.content # Absent THEN partial.content ELSE existing.content]

\* SELECT id,title,created_at,updated_at FROM drawings ORDER BY updated_at DESC
Rows ==
  LET present == {id \in DrawingIds : drawings[id] # NoRow}
      n == Cardinality(present)
      order == CHOOSE f \in [1 .. n -> present] :
                 /\ \A i, j \in 1 .. n : i # j => f[i] # f[j]
                 /\ \A i, j \in 1 .. n :
                      i < j => drawings[f[i]].updated_at >= drawings[f[j]].updated_at
  IN [k \in 1 .. n |->
        [id |-> order[k], title |-> drawings[order[k]].title,
         created_at |-> drawings[order[k]].created_at,
         updated_at |-> drawings[order[k]].updated_at]]

\* GET /api/drawings
ListDrawings(s) ==
  /\ alive
  /\ Answer(Request("GET /api/drawings", s, 0, NoBody), 200, Rows)
  /\ UNCHANGED <<users, session, pending, drawings, now>>
  /\ UNCHANGED relayvars

\* POST /api/drawings
CreateDrawing(s, body) ==
  LET req == Request("POST /api/drawings", s, 0, body) IN
  /\ alive
  /\ IF ~requireAuth(s)
       THEN Answer(req, 401, "Auth required") /\ UNCHANGED <<drawings, now>>
     ELSE IF ~ValidDrawing(body)
       THEN Answer(req, 400, "Invalid payload") /\ UNCHANGED <<drawings, now>>
     ELSE /\ now < MaxWrites
          /\ \E id \in DrawingIds :
               /\ drawings[id] = NoRow
               /\ drawings' = [drawings EXCEPT ![id] =
                                 [title |-> body.title, json |-> body,
                                  created_at |-> now, updated_at |-> now]]
               /\ Answer(req, 201, id)
          /\ now' = now + 1
  /\ UNCHANGED <<users, session, pending>>
  /\ UNCHANGED relayvars

\* GET /api/drawings/:id
GetDrawing(s, id) ==
  LET req == Request("GET /api/drawings/:id", s, id, NoBody) IN
  /\ alive
  /\ IF drawings[id] = NoRow
       THEN Answer(req, 404, "Not found")
       ELSE Answer(req, 200, drawings[id].json)
  /\ UNCHANGED <<users, session, pending, drawings, now>>
  /\ UNCHANGED relayvars

\* PUT /api/drawings/:id
UpdateDrawing(s, id, body) ==
  LET req == Request("PUT /api/drawings/:id", s, id, body) IN
  /\ alive
  /\ IF ~requireAuth(s)
       THEN Answer(req, 401, "Auth required") /\ UNCHANGED <<drawings, now>>
     ELSE IF ~ValidPartial(body)
       THEN Answer(req, 400, "Invalid payload") /\ UNCHANGED <<drawings, now>>
     ELSE IF drawings[id] = NoRow
       THEN Answer(req, 404, "Not found") /\ UNCHANGED <<drawings, now>>
     ELSE LET merged == Merge(drawings[id].json, body) IN
          /\ now < MaxWrites
          /\ drawings' = [drawings EXCEPT ![id] =
                            [title |-> IF merged.title = Absent THEN "(untitled)"
                                       ELSE merged.title,
                             json |-> merged,
                             created_at |-> @.created_at, updated_at |-> now]]
          /\ now' = now + 1
          /\ Answer(req, 200, "ok")
  /\ UNCHANGED <<users, session, pending>>
  /\ UNCHANGED relayvars

\* DELETE /api/drawings/:id
DeleteDrawing(s, id) ==
  LET req == Request("DELETE /api/drawings/:id", s, id, NoBody) IN
  /\ alive
  /\ IF ~requireAuth(s)
       THEN Answer(req, 401, "Auth required") /\ UNCHANGED drawings
       ELSE /\ drawings' = [drawings EXCEPT ![id] = NoRow]
            /\ Answer(req, 200, "ok")
  /\ UNCHANGED <<users, session, pending, now>>
  /\ UNCHANGED relayvars

ApiNext ==
  \/ \E s \in Sessions, u \in Usernames \cup {Absent}, pw \in Passwords : RegisterBegin(s, u, pw)
  \/ \E p \in pending : RegisterEnd(p)
  \/ \E s \in Sessions, u \in Usernames \cup {Absent}, pw \in Passwords : LoginBegin(s, u, pw)
  \/ \E p \in pending : LoginEnd(p)
  \/ \E s \in Sessions : Logout(s)
  \/ \E s \in Sessions : ListDrawings(s)
  \/ \E s \in Sessions, body \in Bodies : CreateDrawing(s, body)
  \/ \E s \in Sessions, id \in DrawingIds : GetDrawing(s, id)
  \/ \E s \in Sessions, id \in DrawingIds, body \in Bodies : UpdateDrawing(s, id, body)
  \/ \E s \in Sessions, id \in DrawingIds : DeleteDrawing(s, id)

ApiSpec == Init /\ [][ApiNext]_vars

\* ------------------------------------------------------------ observations
\* the step just taken handled an inbound frame of the given kind without
\* ending the process
HandledFrame(kind) ==
  /\ alive'
  /\ event'.type = "message"
  /\ event'.frame.type = kind
  /\ nmsg' = nmsg + 1

\* the step just taken bound a new connection
BoundConnection == event'.type = "connection" /\ bound[event'.ws] = 0 /\ bound'[event'.ws] # 0

\* the step just taken ran the close handler of a bound connection
ClosedConnection == event'.type = "close" /\ readyState[event'.ws] # "CLOSED"

Last(seq) == seq[Len(seq)]
IdsOf(msg) == {e.clientID : e \in msg.entries}
GotOneMore(d) == Len(sent'[d]) = Len(sent[d]) + 1

\* ------------------------------------------------------------------ claims
\* C1: presence broadcast never echoes to its origin.  Handling an awareness
\* frame from connection C sends nothing to C, and no broadcast in a
\* connection's log carries that connection as its origin.
C1_NoEchoToOrigin ==
  [][/\ HandledFrame(MSG_AWARENESS) => sent'[event'.ws] = sent[event'.ws]
     /\ \A c \in Conns : \A k \in DOMAIN sent'[c] :
          sent'[c][k].by = "update" => sent'[c][k].origin # WsOrigin(c)]_vars

\* C1 witness: an awareness frame from one connection was broadcast to another.
C1_Witness ==
  /\ event.type = "message" /\ event.frame.type = MSG_AWARENESS
  /\ \E d \in Conns \ {event.ws} :
       /\ sent[d] # << >>
       /\ Last(sent[d]).by = "update"
       /\ Last(sent[d]).origin = WsOrigin(event.ws)
  /\ states[event.inst][event.ws] # Null

\* the delta a presence change must carry to connection d: one more message,
\* of the awareness kind, with the new clock and state of every id whose
\* entry in the presence set changed
CarriesChange(d, i) ==
  /\ GotOneMore(d)
  /\ Last(sent'[d]).type = MSG_AWARENESS
  /\ \A id \in ClientIds :
       states'[i][id] # states[i][id] =>
         [clientID |-> id, clock |-> meta'[i][id], state |-> states'[i][id]]
           \in Last(sent'[d]).entries

\* C2 as stated: a presence update from C that changes the presence set of
\* its room is sent to every other connection in the room's connection set.
C2_FanOutToEveryMember ==
  [][(HandledFrame(MSG_AWARENESS) /\ states'[event'.inst] # states[event'.inst]) =>
       \A d \in conns[event'.inst] \ {event'.ws} : CarriesChange(d, event'.inst)]_vars

\* C2 amended: it is sent to every other connection in the room's connection
\* set whose socket is OPEN.
C2_FanOutToOpenMembers ==
  [][(HandledFrame(MSG_AWARENESS) /\ states'[event'.inst] # states[event'.inst]) =>
       \A d \in conns[event'.inst] \ {event'.ws} :
         readyState[d] = "OPEN" => CarriesChange(d, event'.inst)]_vars

\* C2 witness: connection 1 published Alice and connection 2, in the same
\* room, was sent exactly that entry.
C2_Witness ==
  /\ event.type = "message" /\ event.frame.type = MSG_AWARENESS /\ event.ws = 1
  /\ bound[2] = bound[1] /\ readyState[2] = "OPEN"
  /\ states[bound[1]][1] = Alice
  /\ Last(sent[2]).by = "update"
  /\ Last(sent[2]).entries = {[clientID |-> 1, clock |-> 1, state |-> Alice]}

\* C3 as stated: once a connection's transport has closed and its close has
\* been handled, its presence entry is gone from the room's presence set by
\* the time another connection joins the room, and the full snapshot sent to
\* that joiner does not name the closed connection's client id.
C3_ClosedLeavesNoPresence ==
  [][BoundConnection =>
       \A d \in Conns :
         (readyState[d] = "CLOSED" /\ bound[d] = event'.inst) =>
           /\ states'[event'.inst][d] = Null
           /\ d \notin IdsOf(sent'[event'.ws][2])]_vars

\* C4 as stated: when a connection of room R closes, every connection that
\* remains in R's connection set is sent a removal delta (state null) for the
\* closed connection's client id.
C4_CloseBroadcastsRemoval ==
  [][(ClosedConnection /\ states[event'.inst][event'.ws] # Null) =>
       \A d \in conns'[event'.inst] :
         readyState[d] = "OPEN" =>
           /\ GotOneMore(d)
           /\ Last(sent'[d]).type = MSG_AWARENESS
           /\ \E e \in Last(sent'[d]).entries :
                e.clientID = event'.ws /\ e.state = Null]_vars

\* the room name the upgrade handler resolved for the connection just bound
ResolvedName == RoomOf(event'.req)

\* C5: one Room per name.  A connection joining a name the registry already
\* holds is bound to that very Room and the registry is left alone; a first
\* reference constructs one Room and registers it under that name; and every
\* Room ever constructed stays registered under exactly one name.
C5_OneRoomPerName ==
  [][/\ BoundConnection =>
          /\ rooms[ResolvedName] # 0 =>
               /\ bound'[event'.ws] = rooms[ResolvedName]
               /\ rooms' = rooms
               /\ nextInst' = nextInst
          /\ rooms[ResolvedName] = 0 =>
               /\ nextInst' = nextInst + 1
               /\ rooms' = [rooms EXCEPT ![ResolvedName] = nextInst']
               /\ bound'[event'.ws] = nextInst'
          /\ event'.ws \in conns'[bound'[event'.ws]]
     /\ alive' =>
          \A i \in 1 .. nextInst' : Cardinality({n \in RoomNames : rooms'[n] = i}) = 1]_vars

\* C5 witness: two open connections that named room "a", one in the path and
\* one in the query parameter, share one Room.
C5_Witness ==
  /\ event.type = "connection" /\ event.ws = 2
  /\ event.req = [url |-> "/yjs", room |-> "a"]
  /\ readyState = [c \in Conns |-> IF c \in {1, 2} THEN "OPEN" ELSE "CONNECTING"]
  /\ bound[1] = bound[2] /\ bound[1] = rooms["a"]
  /\ conns[bound[1]] = {1, 2}
  /\ nextInst = 1

\* ------------------------------------------------------------- fair runs
\* The event loop runs the close handler of a socket that has left OPEN.
\* Nothing obliges a client to send a frame or to disconnect, and the
\* verdicts of the check interval are not forced.
FairSpec ==
  /\ Spec
  /\ \A ws \in Conns : WF_vars(readyState[ws] = "CLOSING" /\ OnClose(ws))

\* connection b has been sent document update u in a sync message
Delivered(b, u) ==
  \E k \in DOMAIN sent[b] : sent[b][k].type = MSG_SYNC /\ sent[b][k].sub = "step2"
                            /\ u \in sent[b][k].docpart

\* the server has just applied update u, pushed by another connection of the
\* room open connection b is bound to
PushedBeside(b, u) ==
  /\ alive
  /\ event.type = "message" /\ event.frame.type = MSG_SYNC
  /\ event.frame.sub \in {"step2", "update"}
  /\ u \in event.frame.docpart
  /\ event.ws # b
  /\ readyState[b] = "OPEN" /\ bound[b] = event.inst /\ b \in conns[event.inst]
  /\ u \in doc[event.inst]

\* C6 as stated: a document update pushed by one connected client is
\* eventually delivered to every other client connected to the room, for as
\* long as that client stays connected.
C6_UpdateReachesPeers ==
  \A b \in Conns : \A u \in DocUpdates :
    [](PushedBeside(b, u) => <>(Delivered(b, u) \/ readyState[b] # "OPEN"))

\* C7 as stated: the reconciliation response to a step 1 contains every
\* update the room document holds, and answering it sends nothing to anyone
\* but the requester.
SyncStep1Handled == HandledFrame(MSG_SYNC) /\ event'.frame.sub = "step1"
SyncUpdateHandled == HandledFrame(MSG_SYNC) /\ event'.frame.sub \in {"step2", "update"}

C7_ResponseHoldsWholeDocument ==
  [][SyncStep1Handled =>
       /\ GotOneMore(event'.ws)
       /\ doc[event'.inst] \subseteq Last(sent'[event'.ws]).docpart
       /\ \A a \in Conns \ {event'.ws} : sent'[a] = sent[a]]_vars

\* C7 amended: every update a client pushed is applied to the room document
\* and stays in it (whoever disconnects meanwhile); the response to a later
\* step 1 contains every update of the document that the requester's state
\* vector does not already cover, so the requester's reconciled replica holds
\* them all; and answering sends nothing to anyone but the requester.
C7_ReconciledReplicaHoldsDocument ==
  [][/\ SyncUpdateHandled => event'.frame.docpart \subseteq doc'[event'.inst]
     /\ alive' => \A i \in InstIds : doc[i] \subseteq doc'[i]
     /\ SyncStep1Handled =>
          /\ GotOneMore(event'.ws)
          /\ Last(sent'[event'.ws]).type = MSG_SYNC
          /\ Last(sent'[event'.ws]).sub = "step2"
          /\ Last(sent'[event'.ws]).docpart = doc[event'.inst] \ event'.frame.docpart
          /\ \A a \in Conns \ {event'.ws} : sent'[a] = sent[a]]_vars

\* C7 witness: connection 1 pushed u1 and closed, the room had no connection,
\* then connection 2 joined and its step 1 was answered with u1.
C7_Witness ==
  /\ event.type = "message" /\ event.ws = 2
  /\ event.frame = Frame(MSG_SYNC, "step1", {}, NoEntries)
  /\ readyState[1] = "CLOSED" /\ bound[1] = bound[2]
  /\ sent[2][1].docpart = {"u1"}
  /\ Len(sent[1]) = 2
  /\ Last(sent[2]).sub = "step2" /\ Last(sent[2]).docpart = {"u1"}

\* C8: a joining connection is sent one full snapshot at bind, of the
\* awareness kind, with an entry (current clock and state) for exactly the
\* client ids in the room's presence set at that moment; no connection's log
\* ever holds a second snapshot.
C8_SnapshotComplete ==
  [][/\ BoundConnection =>
          LET ws == event'.ws
              i == event'.inst
              snap == Last(sent'[ws])
          IN /\ sent[ws] = << >>
             /\ Len(sent'[ws]) = 2
             /\ snap.type = MSG_AWARENESS
             /\ snap.by = "sendFullAwareness"
             /\ snap.entries =
                  {[clientID |-> id, clock |-> meta[i][id], state |-> states[i][id]] :
                     id \in {x \in ClientIds : states[i][x] # Null}}
             /\ states'[i] = states[i]
     /\ \A c \in Conns :
          Cardinality({k \in DOMAIN sent'[c] : sent'[c][k].by = "sendFullAwareness"})
            = IF bound'[c] # 0 THEN 1 ELSE 0]_vars

\* C8 witness: a connection joined a room holding two client entries besides
\* the room's own, and its snapshot names all three.
C8_Witness ==
  /\ event.type = "connection"
  /\ bound[event.ws] # 0
  /\ Cardinality(IdsOf(Last(sent[event.ws]))) = 3
  /\ Last(sent[event.ws]).by = "sendFullAwareness"

\* C9: every bound connection is a member of its room's connection set until
\* its close is handled, and its log starts with the sync step 1 followed by
\* the full presence snapshot: both precede every broadcast delta and every
\* reply to a frame of its own, and no frame of a connection is handled
\* before it is bound.
C9_BindOrdering ==
  \A c \in Conns :
    /\ readyState[c] \in {"OPEN", "CLOSING"} => (bound[c] # 0 /\ c \in conns[bound[c]])
    /\ bound[c] # 0 =>
         /\ Len(sent[c]) >= 2
         /\ sent[c][1].type = MSG_SYNC /\ sent[c][1].sub = "step1"
         /\ sent[c][1].by = "sendSync"
         /\ sent[c][2].type = MSG_AWARENESS /\ sent[c][2].by = "sendFullAwareness"
         /\ \A k \in 3 .. Len(sent[c]) : sent[c][k].by \in {"update", "reply"}
    /\ bound[c] = 0 => sent[c] = << >>

\* C9 witness: a bound connection that has since been sent a broadcast delta
\* and a sync reply.
C9_Witness ==
  \E c \in Conns :
    /\ Len(sent[c]) = 4
    /\ sent[c][3].by = "update"
    /\ sent[c][4].by = "reply"

\* C10: sync is point to point.  Handling a sync frame from C sends nothing
\* to any other connection; a step 1 is answered to C with one step 2, and a
\* step 2 or an update, which produce no payload, are answered with nothing.
C10_SyncPointToPoint ==
  [][HandledFrame(MSG_SYNC) =>
       /\ \A d \in Conns \ {event'.ws} : sent'[d] = sent[d]
       /\ event'.frame.sub = "step1" =>
            /\ GotOneMore(event'.ws)
            /\ Last(sent'[event'.ws]).type = MSG_SYNC
            /\ Last(sent'[event'.ws]).by = "reply"
            /\ Last(sent'[event'.ws]).origin = WsOrigin(event'.ws)
       /\ event'.frame.sub # "step1" => sent'[event'.ws] = sent[event'.ws]]_vars

\* C10 witness: a step 1 was answered while another open connection shared
\* the room.
C10_Witness ==
  /\ event.type = "message" /\ event.frame.type = MSG_SYNC /\ event.frame.sub = "step1"
  /\ Last(sent[event.ws]).by = "reply"
  /\ \E d \in Conns \ {event.ws} :
       readyState[d] = "OPEN" /\ bound[d] = event.inst /\ Len(sent[d]) = 2

\* the step just taken is the message handler's, for a frame whose decoding
\* fails: an empty frame, or a sync or awareness frame with a corrupt payload
UndecodableFrameArrived ==
  /\ event'.type = "message"
  /\ \/ event'.frame = EmptyFrame
     \/ event'.frame.type \in {MSG_SYNC, MSG_AWARENESS} /\ event'.frame.sub = "corrupt"

\* C11 as stated: a frame that fails to decode is not fatal.  The relay
\* process keeps running, and every other connection stays bound to its room,
\* a member of its connection set and as open as it was.
C11_CorruptInputNotFatal ==
  [][UndecodableFrameArrived =>
       /\ alive'
       /\ \A d \in Conns \ {event'.ws} :
            /\ bound'[d] = bound[d]
            /\ readyState'[d] = readyState[d]
            /\ \A i \in InstIds : d \in conns[i] => d \in conns'[i]]_vars

\* the step just taken is the message handler's, for a frame whose leading
\* tag is neither MSG_SYNC nor MSG_AWARENESS
UnknownTagArrived ==
  /\ event'.type = "message"
  /\ event'.frame # EmptyFrame
  /\ event'.frame.type \notin {MSG_SYNC, MSG_AWARENESS}

\* C12: a frame with an unknown tag is a no-op.  The process keeps running;
\* no document, presence set, connection set or registry entry changes;
\* nothing is sent to anyone; the sender stays open, bound and a member of its
\* room, which is all the message handler asks of it to process its next
\* frame.
C12_UnknownTagIsNoOp ==
  [][UnknownTagArrived =>
       /\ alive'
       /\ doc' = doc /\ states' = states /\ meta' = meta
       /\ conns' = conns /\ rooms' = rooms /\ nextInst' = nextInst
       /\ sent' = sent
       /\ readyState' = readyState /\ readyState'[event'.ws] = "OPEN"
       /\ bound' = bound /\ bound'[event'.ws] # 0
       /\ event'.ws \in conns'[bound'[event'.ws]]]_vars

\* C12 witness: a connection whose room holds a published presence entry and
\* another open member has just sent an unknown tag, as its second frame.
C12_Witness ==
  /\ alive
  /\ nmsg = 2
  /\ event.type = "message" /\ event.frame = Frame(2, "", {}, NoEntries)
  /\ readyState[event.ws] = "OPEN" /\ event.ws \in conns[event.inst]
  /\ states[event.inst][event.ws] = Alice
  /\ \E d \in Conns \ {event.ws} : readyState[d] = "OPEN" /\ bound[d] = event.inst

\* the display names that count as placeholders: absent or empty, or "user"
\* or "guest" in any letter case once the surrounding blanks are dropped
PlaceholderNames == {"<undefined>", "", "user", "User", "guest", "Guest", " Guest "}

\* a display name without its surrounding blanks
Shown(name) == IF name = " Bob " THEN "Bob" ELSE name

\* C13: the answer of the directory query has one item per room of the
\* registry, and the peers of a room's item are exactly the entries of that
\* room's presence set whose display name is not a placeholder, each under
\* its client id and trimmed name.
C13_DirectoryFiltering ==
  response.route = "GET /api/rooms" =>
    /\ response.status = 200
    /\ Len(response.body) = Cardinality({n \in RoomNames : rooms[n] # 0})
    /\ \A n \in RoomNames :
         rooms[n] # 0 =>
           /\ Cardinality({k \in DOMAIN response.body : response.body[k].name = n}) = 1
           /\ \A k \in DOMAIN response.body :
                response.body[k].name = n =>
                  {[id |-> p.id, name |-> p.name] : p \in response.body[k].peers}
                    = {[id |-> id, name |-> Shown(states[rooms[n]][id].name)] :
                         id \in {x \in ClientIds :
                                   /\ states[rooms[n]][x] # Null
                                   /\ states[rooms[n]][x].name \notin PlaceholderNames}}

\* C13 witness: the directory was queried while a room held the room's own
\* unnamed entry, a "User" and a " Bob ": only Bob is listed.
C13_Witness ==
  /\ response.route = "GET /api/rooms"
  /\ \E k \in DOMAIN response.body :
       /\ states[k][ServerId] = EmptyState /\ states[k][1] = User /\ states[k][2] = Bob
       /\ response.body[k].peers = {[id |-> 2, name |-> "Bob", color |-> "#999"]}

\* the step just taken is the upgrade handler's, for a request whose path is
\* not under the real-time endpoint or whose target does not parse
OffEndpointUpgrade ==
  /\ event'.type \in {"connection", "rejected"}
  /\ event'.req.url \in {"/api/rooms", "//"}

\* C14: an upgrade request off the real-time endpoint is rejected.  Its
\* socket is destroyed without ever becoming a connection, it is bound to no
\* room and joins no connection set, no room is created, and nothing is sent
\* to any connection.
C14_UpgradeRejected ==
  [][OffEndpointUpgrade =>
       /\ event'.type = "rejected"
       /\ readyState[event'.ws] = "CONNECTING" /\ readyState'[event'.ws] = "CLOSED"
       /\ bound' = bound /\ bound'[event'.ws] = 0
       /\ conns' = conns /\ \A i \in InstIds : event'.ws \notin conns'[i]
       /\ rooms' = rooms /\ nextInst' = nextInst
       /\ doc' = doc /\ states' = states /\ meta' = meta
       /\ sent' = sent /\ sent'[event'.ws] = << >>]_vars

\* C14 witness: an upgrade for /api/rooms was rejected while a connection was
\* open in a room.
C14_Witness ==
  /\ event.type = "rejected" /\ event.req.url = "/api/rooms"
  /\ readyState[event.ws] = "CLOSED" /\ bound[event.ws] = 0
  /\ \E d \in Conns : readyState[d] = "OPEN" /\ d \in conns[bound[d]]
  /\ nextInst = 1

\* the room name a request designates, read as a url: the decoded path
\* segment after /yjs if there is one, else the decoded room parameter if it
\* is present and non-empty, else "default"
DesignatedName(req) ==
  CASE req.url \in {"/yjs/a", "/yjsa"} -> "a"
    [] req.url = "/yjs/a%20b" -> "a b"
    [] req.url \in {"/yjs", "/yjs/"} /\ req.room = "a" -> "a"
    [] req.url \in {"/yjs", "/yjs/"} /\ req.room = "a%20b" -> "a b"
    [] OTHER -> "default"

\* the requests the upgrade handler accepts
Accepted == {r \in Requests \cup EncodedRequests : UrlParses(r) /\ StartsWithYjs(r)}

\* C15 as stated: an accepted connection is bound to the Room registered
\* under the path remainder if that is non-empty, else under the value of the
\* room parameter if present and non-empty, else under "default"; and a
\* connection whose request designates the name of an earlier request's Room
\* (every registry key here stems from requests that designate one name) is
\* bound to that same Room, whether the name came in the path or the query.
C15_NameResolution ==
  [][BoundConnection =>
       LET req == event'.req
           ws == event'.ws
           rest == IF req.url = "/yjs/a" \/ req.url = "/yjsa" THEN "a"
                   ELSE IF req.url = "/yjs/a%20b" THEN "a%20b" ELSE ""
           param == IF req.room = "a%20b" THEN "a b" ELSE req.room
           name == IF rest # "" THEN rest
                   ELSE IF param # NoParam /\ param # "" THEN param ELSE "default"
       IN /\ rooms'[name] = bound'[ws]
          /\ \A r \in Accepted :
               (DesignatedName(r) = DesignatedName(req) /\ rooms[RoomOf(r)] # 0) =>
                 bound'[ws] = rooms[RoomOf(r)]]_vars

\* the routes that write to the drawings table
MutatingRoutes ==
  {"POST /api/drawings", "PUT /api/drawings/:id", "DELETE /api/drawings/:id"}

\* the step just taken handled a request of the route for a session that had
\* no logged-in user
AnonymousRequest(route) ==
  /\ event'.type = "request"
  /\ request'.route = route
  /\ session[request'.session] = NoUser

\* C16: a create, update or delete issued by a session with no logged-in user
\* is answered 401 "Auth required" and leaves the drawings table as it was;
\* list and get are answered for such a session from the table as it is (the
\* rows, the stored drawing, or 404 for an id without a row).
C16_MutationsRequireAuth ==
  [][/\ \A route \in MutatingRoutes :
          AnonymousRequest(route) =>
            /\ response'.status = 401 /\ response'.body = "Auth required"
            /\ drawings' = drawings
     /\ AnonymousRequest("GET /api/drawings") =>
          /\ response'.status = 200
          /\ {row.id : row \in {response'.body[k] : k \in DOMAIN response'.body}}
               = {id \in DrawingIds : drawings[id] # NoRow}
          /\ drawings' = drawings
     /\ AnonymousRequest("GET /api/drawings/:id") =>
          /\ drawings' = drawings
          /\ IF drawings[request'.id] = NoRow
               THEN response'.status = 404
               ELSE response'.status = 200 /\ response'.body = drawings[request'.id].json]_vars

\* C16 witness: a session without a user asked to delete a stored drawing,
\* was refused, and the drawing is still there.
C16_Witness ==
  /\ request.route = "DELETE /api/drawings/:id"
  /\ session[request.session] = NoUser
  /\ response.status = 401
  /\ drawings[request.id] # NoRow
  /\ \E s \in Sessions : session[s] # NoUser

\* C17 as stated: every entry of a room's presence set, the room's own aside,
\* is keyed by the client id of a connection that is in the room's connection
\* set (so no connection accounts for more than one entry).
C17_OneEntryPerLiveConnection ==
  \A i \in InstIds : \A id \in ClientIds \ {ServerId} :
    states[i][id] # Null => id \in conns[i]

\* C18: rooms are never evicted.  While the process runs, a name the registry
\* holds keeps the very Room object it was registered with, whoever connects
\* or closes, so the registered names never shrink; and the close of a
\* connection, the last one included, leaves that Room's document and
\* presence set as they were.
C18_RoomsNeverEvicted ==
  [][alive' =>
       /\ \A n \in RoomNames : rooms[n] # 0 => rooms'[n] = rooms[n]
       /\ {n \in RoomNames : rooms[n] # 0} \subseteq {n \in RoomNames : rooms'[n] # 0}
       /\ ClosedConnection =>
            /\ doc' = doc /\ states' = states /\ meta' = meta
            /\ rooms'[CHOOSE n \in RoomNames : rooms[n] = event'.inst] = event'.inst]_vars

\* C18 witness: connection 1 pushed u1 into room "a" and closed, leaving the
\* room without connections; connection 2 then named "a" and was bound to the
\* same Room, which still holds u1.
C18_Witness ==
  /\ event.type = "connection" /\ event.ws = 2 /\ RoomOf(event.req) = "a"
  /\ readyState[1] = "CLOSED" /\ bound[1] = bound[2]
  /\ conns[bound[2]] = {2}
  /\ rooms["a"] = bound[1] /\ nextInst = 1
  /\ doc[bound[2]] = {"u1"}

\* the directory query and the registry lookup of an existing room leave the
\* registry, the documents and the presence sets alone
QueryAndLookupChangeNothing ==
  /\ (event'.type = "request" /\ response'.route = "GET /api/rooms") =>
       /\ rooms' = rooms /\ nextInst' = nextInst
       /\ doc' = doc /\ states' = states /\ meta' = meta /\ conns' = conns
  /\ (BoundConnection /\ rooms[ResolvedName] # 0) =>
       /\ rooms' = rooms /\ nextInst' = nextInst
       /\ doc' = doc /\ states' = states /\ meta' = meta

\* C19 as stated: while the process runs, a room's document and presence set
\* change only in a step that handles a sync or an awareness frame; the
\* directory query and the lookup of an existing room change nothing.
C19_OnlyMessagesMutate ==
  [][alive' =>
       /\ (doc' # doc \/ states' # states) =>
            (event'.type = "message" /\ event'.frame.type \in {MSG_SYNC, MSG_AWARENESS})
       /\ QueryAndLookupChangeNothing]_vars

\* C19 amended: a document changes only in a step that handles a sync frame
\* of the room's own connection; a presence set changes only in a step that
\* handles an awareness frame of the room's own connection, or in a firing of
\* the awareness check interval, which only removes entries other than the
\* room's own; the directory query and the lookup of an existing room change
\* nothing.
C19_MessagesAndTimeoutMutate ==
  [][alive' =>
       /\ \A i \in InstIds :
            /\ doc'[i] # doc[i] =>
                 /\ event'.type = "message" /\ event'.frame.type = MSG_SYNC
                 /\ event'.inst = i
            /\ states'[i] # states[i] =>
                 \/ /\ event'.type = "message" /\ event'.frame.type = MSG_AWARENESS
                    /\ event'.inst = i
                 \/ /\ event'.type = "interval" /\ event'.inst = i
                    /\ states'[i][ServerId] = states[i][ServerId]
                    /\ \A id \in ClientIds :
                         states'[i][id] # states[i][id] => states'[i][id] = Null
       /\ QueryAndLookupChangeNothing]_vars

\* C19 witness: the check interval removed a connection's entry from a room
\* and the removal went out with origin "timeout".
C19_Witness ==
  /\ event.type = "interval"
  /\ \E id \in Conns :
       /\ states[event.inst][id] = Null /\ meta[event.inst][id] >= 0
       /\ \E d \in conns[event.inst] :
            /\ sent[d] # << >>
            /\ Last(sent[d]).origin = TimeoutOrigin
            /\ [clientID |-> id, clock |-> meta[event.inst][id], state |-> Null]
                 \in Last(sent[d]).entries

\* C20: connection-set membership.  A connection that is bound and whose
\* close has not been handled is a member of the connection set of the Room
\* it is bound to and of no other; a connection that never was bound or whose
\* close has been handled is a member of none; and a binding, made to the
\* Room the request's name resolved to, never changes while the process runs.
C20_ConnectionSetMembership ==
  [][/\ \A c \in Conns :
          /\ readyState'[c] \in {"OPEN", "CLOSING"} =>
               /\ bound'[c] # 0
               /\ {i \in InstIds : c \in conns'[i]} = {bound'[c]}
          /\ readyState'[c] \in {"CONNECTING", "CLOSED"} =>
               \A i \in InstIds : c \notin conns'[i]
          /\ (alive' /\ bound[c] # 0) => bound'[c] = bound[c]
     /\ BoundConnection => bound'[event'.ws] = rooms'[ResolvedName]]_vars

\* C20 witness: two connections were bound to two rooms; the first has
\* closed and is in no connection set, the second is in its own room's only.
C20_Witness ==
  /\ event.type = "close" /\ event.ws = 1
  /\ readyState[1] = "CLOSED" /\ readyState[2] = "OPEN"
  /\ bound[1] # 0 /\ bound[2] # 0 /\ bound[1] # bound[2]
  /\ conns[bound[1]] = {} /\ conns[bound[2]] = {2}

\* the client ids of room i that the step just taken added, updated or
\* removed: those whose state or clock is no longer what it was, but for an
\* id the room never knew that was only announced as absent
ChangedIds(i) ==
  {id \in ClientIds :
     /\ states'[i][id] # states[i][id] \/ meta'[i][id] # meta[i][id]
     /\ ~(meta[i][id] = -1 /\ states'[i][id] = Null)}

\* the messages the step just taken sent to connection d
NewlySent(d) == SubSeq(sent'[d], Len(sent[d]) + 1, Len(sent'[d]))

\* C21: delta exactness.  Handling an awareness frame that changes some
\* client ids sends each receiver one awareness message whose entries are
\* exactly those ids with their current clock and state; a frame that changes
\* none (a stale one) sends nothing and leaves the presence set as it was;
\* and the deltas of a firing of the check interval together name exactly
\* the ids it changed.
C21_DeltaExactness ==
  [][/\ HandledFrame(MSG_AWARENESS) =>
          LET i == event'.inst IN
          /\ \A d \in Conns :
               \/ NewlySent(d) = << >>
               \/ /\ Len(NewlySent(d)) = 1
                  /\ ChangedIds(i) # {}
                  /\ NewlySent(d)[1].type = MSG_AWARENESS
                  /\ NewlySent(d)[1].entries =
                       {[clientID |-> id, clock |-> meta'[i][id], state |-> states'[i][id]] :
                          id \in ChangedIds(i)}
          /\ ChangedIds(i) = {} => (sent' = sent /\ states' = states)
          /\ ChangedIds(i) # {} =>
               \A d \in conns[i] \ {event'.ws} :
                 readyState[d] = "OPEN" => Len(NewlySent(d)) = 1
     /\ (alive' /\ event'.type = "interval") =>
          LET i == event'.inst IN
          \A d \in Conns :
            NewlySent(d) # << >> =>
              /\ UNION {IdsOf(NewlySent(d)[k]) : k \in DOMAIN NewlySent(d)} = ChangedIds(i)
              /\ \A k \in DOMAIN NewlySent(d) : \A e \in NewlySent(d)[k].entries :
                   e.clock = meta'[i][e.clientID] /\ e.state = states'[i][e.clientID]]_vars

\* C21 witness: a room held the entries of two clients; a frame removed the
\* first, and the other member was sent a delta naming the first alone.
C21_Witness ==
  /\ event.type = "message" /\ event.frame.type = MSG_AWARENESS
  /\ states[event.inst][1] = Null /\ states[event.inst][2] # Null
  /\ \E d \in conns[event.inst] \ {event.ws} :
       /\ Last(sent[d]).by = "update"
       /\ Last(sent[d]).entries = {[clientID |-> 1, clock |-> 1, state |-> Null]}

\* the step just taken is the message handler's, for a frame that carries
\* the sync or the awareness tag
KnownKindArrived ==
  /\ event'.type = "message"
  /\ event'.frame.type \in {MSG_SYNC, MSG_AWARENESS}

\* C22 as stated: a sync or awareness frame from a connection bound to room R
\* changes the document and the presence set of no other room and sends
\* nothing to a connection bound to another room.
C22_CrossRoomIsolation ==
  [][KnownKindArrived =>
       /\ \A i \in InstIds \ {event'.inst} : doc'[i] = doc[i] /\ states'[i] = states[i]
       /\ \A d \in Conns :
            (bound[d] # 0 /\ bound[d] # event'.inst) => sent'[d] = sent[d]]_vars

\* C23: no delivery to departed connections.  A presence broadcast goes only
\* to connections that are, when it is made, in the connection set of the
\* room it is about and OPEN; and a connection whose close has been handled
\* is sent nothing any more.
C23_NoDeliveryToDeparted ==
  [][\A d \in Conns :
       /\ \A k \in DOMAIN NewlySent(d) :
            NewlySent(d)[k].by = "update" =>
              /\ d \in conns[event'.inst]
              /\ bound[d] = event'.inst
              /\ readyState[d] = "OPEN"
       /\ readyState[d] = "CLOSED" => NewlySent(d) = << >>]_vars

\* C23 witness: connection 1 closed, and a later broadcast of its room went
\* to connection 2 while connection 1 was sent nothing beyond its two
\* initial messages.
C23_Witness ==
  /\ event.type = "interval"
  /\ readyState[1] = "CLOSED" /\ readyState[2] = "OPEN"
  /\ bound[1] = event.inst /\ bound[2] = event.inst
  /\ Len(sent[1]) = 2
  /\ Len(sent[2]) = 3 /\ Last(sent[2]).by = "update"

\* C24 as stated: a registration succeeds only for a username nobody holds,
\* and a stored credential is never replaced.
C24_RegistrationExclusive ==
  [][/\ (event'.type = "request" /\ request'.route = "POST /auth/register"
          /\ response'.status = 200) => users[response'.body] = NoHash
     /\ \A u \in Usernames : users[u] # NoHash => users'[u] = users[u]]_vars

====
